---- MODULE Spec2Model ----
(***************************************************************************)
(* The upload/resume engine of tusclient.uploader.uploader: the chunk      *)
(* loop of upload(), upload_chunk() with its lazy url creation, and the    *)
(* recursion between _do_request() and _retry_or_cry().  Uploader,         *)
(* AsyncUploader and StreamUploader are one state machine selected by the  *)
(* variable variant.  The server is the environment: every response is a   *)
(* nondeterministic choice.                                                *)
(***************************************************************************)
EXTENDS Integers, FiniteSets, Sequences, TLC

\* ---------------------------------------------------------------- bounds
FileSize == 2       \* get_file_size(): size of the artifact
ChunkSize == 1      \* chunk_size
MaxRetries == 2     \* retries (retry_limit) is drawn from 0..MaxRetries
MaxCalls == 2       \* upload() / upload_chunk() calls made by the caller

MaxOff == FileSize + 1   \* largest upload-offset value a server reports
MaxTx == FileSize + 1    \* callTx counts the 204 answers of a call up to here

\* ------------------------------------------------------------- encodings
NoUrl == 0          \* self.url is None
NoArg == -1         \* upload() called without stop_at (stop_at=None)
Missing == -1       \* header absent: headers.get(...) is None
Malformed == -2     \* header present but not the text of an integer
OK204 == 204        \* the status _verify_upload accepts
Conflict409 == 409  \* a status _verify_upload rejects
NoStatus == 0       \* perform() raised before any status was received
NoOffset == -1      \* no offset recorded (history only)

Variants == {"sync", "async", "stream"}
\* the server names a new resource in each location it returns: the k-th
\* creation call of the session, when answered with a location, gets url k
Urls == 1..MaxCalls
Offsets == 0..MaxOff
HeaderValues == Offsets \cup {Missing, Malformed}
StopArgs == {NoArg} \cup (0..MaxOff)

NoError == [kind |-> "none", op |-> "none", n |-> 0]
Err(k, o, i) == [kind |-> k, op |-> o, n |-> i]
\* a request: the offset it declares (taken from self.offset when the
\* request object is built), and the status and upload-offset of its answer
NoRequest == [status |-> NoStatus, hdr |-> Missing, declared |-> 0]

VARIABLES
    variant,     \* which class the session is an instance of
    retries,     \* self.retries
    url,         \* self.url
    offset,      \* self.offset
    stop_at,     \* self.stop_at
    retried,     \* self._retried
    request,     \* self.request: response of the latest transmission
    error,       \* the error argument of the running _retry_or_cry
    pc,          \* position of the (single) call stack
    inUpload,    \* the running upload_chunk() was called by upload()
    \* ---- observation of the run (history) ----
    calls,       \* calls made by the caller so far
    lastCall,    \* [op, arg] of the latest call of the caller
    result,      \* outcome of the latest call
    raised,      \* the error the latest call raised
    chunkResult, \* outcome of the latest upload_chunk() of the latest call
    nCreate,     \* creation calls issued in the session
    nCreateOk,   \* creation calls that returned a location
    trace,       \* exchanges of that upload_chunk() execution, in order
    acted,       \* the latest call issued some exchange (of any kind)
    resume,      \* the latest call repeats a completed upload(stop_at)
    base,        \* offset the running chunk works from: its value when the
                 \* chunk began, then 0 after a creation, then the value of
                 \* the latest successful offset query
    failOffset,  \* the latest call is an upload_chunk() that follows one whose
                 \* retry budget ran out: the offset that one left (else NoOffset)
    callTx       \* transmissions answered 204 in the latest call (up to MaxTx)

code == <<variant, retries, url, offset, stop_at, retried, request, error, pc, inUpload>>
hist == <<calls, lastCall, result, raised, chunkResult, nCreate, nCreateOk,
          trace, acted, resume, base, failOffset, callTx>>
vars == <<code, hist>>

\* ------------------------------------------------- the trace of one chunk
TxEvents == {"tx_ok", "tx_status", "tx_transport"}
QueryEvents == {"query_ok", "query_fail"}
FailEvents == {"tx_status", "tx_transport", "query_fail"}
CreateEvents == {"create_ok", "create_transport", "create_nolocation"}
Positions(events) == {i \in DOMAIN trace : trace[i] \in events}
Count(events) == Cardinality(Positions(events))
TxCount == Count(TxEvents)
QueryCount == Count(QueryEvents)
First(S) == CHOOSE i \in S : \A j \in S : i <= j
Last(S) == CHOOSE i \in S : \A j \in S : j <= i
\* the error object a failed exchange at position i of the trace produced
ErrorAt(i) ==
    IF trace[i] = "query_fail" THEN Err("CommunicationError", "query", i)
    ELSE Err("UploadFailed", "tx", i)

\* ------------------------------------------------------ the code's tests
\* _verify_upload: only 204 passes, anything else raises TusUploadFailed
verify_upload(req) == req.status = OK204

\* upload_chunk: `self._retried = 0`
ResetRetriedKeep == retried
ResetRetried == 0

\* upload_chunk: `if not self.url`
NeedsUrlAlways == TRUE
NeedsUrl == url = NoUrl

\* _retry_or_cry: `if self.retries > self._retried`
CanRetryInclusive == retries >= retried
CanRetry == retries > retried

\* _retry_or_cry: `raise error`, the argument of this invocation
ErrorToRaiseOriginal == ErrorAt(First(Positions(FailEvents)))
ErrorToRaise == error

\* upload: `self.stop_at = stop_at or self.get_file_size()`
ResolveStopAt(s) == IF s = NoArg \/ s = 0 THEN FileSize ELSE s

\* upload: `while self.offset < self.stop_at`
LoopContinuesEarly == offset + ChunkSize < stop_at
LoopContinuesDoWhile == offset < stop_at \/ ~acted
LoopContinues == offset < stop_at

\* _retry_or_cry: `self.offset = self.get_offset()`, v the value returned
OffsetAfterQueryStale(v) == offset
OffsetAfterQuery(v) == v

\* upload_chunk: `int(self.request.response_headers.get('upload-offset'))`
NewOffsetLocal == offset + ChunkSize
NewOffset == request.hdr

\* create_url without a location header: Uploader and StreamUploader raise
\* TusCommunicationError(msg, resp.status_code, resp.content); AsyncUploader
\* formats resp.status_code of an aiohttp response, which has no such
\* attribute (it has .status), so the format call raises AttributeError
NoLocationErrorOf(v) ==
    IF v = "async" THEN Err("AttributeError", "create", 0)
    ELSE Err("CommunicationError", "create", 0)
NoLocationError == NoLocationErrorOf(variant)

\* the bytes one transmission carries: at most chunk_size, clipped at stop_at
\* (the request's content length), and no more than the file still holds
Min(a, b) == IF a <= b THEN a ELSE b
Max(a, b) == IF a >= b THEN a ELSE b
ChunkLen == Min(ChunkSize, stop_at - offset)
BytesSent == Max(0, Min(ChunkLen, FileSize - offset))

\* the awaits of AsyncUploader, where a cancellation of the task is
\* delivered: create_url (session.post), request.perform(), asyncio.sleep
SuspensionPointsAndLoop == {"create", "request", "sleep", "loop"}
SuspensionPoints == {"create", "request", "sleep"}

\* the retry budget of the latest upload_chunk() ran out
BudgetExhausted == chunkResult = "raised" /\ raised.op \in {"tx", "query"}

\* --------------------------------------------------------------- the run
Init ==
    /\ variant \in Variants
    /\ retries \in 0..MaxRetries
    /\ url = NoUrl
    /\ offset = 0
    /\ stop_at = FileSize
    /\ retried = 0
    /\ request = NoRequest
    /\ error = NoError
    /\ pc = "idle"
    /\ inUpload = FALSE
    /\ calls = 0
    /\ lastCall = [op |-> "none", arg |-> NoArg]
    /\ result = "none"
    /\ raised = NoError
    /\ chunkResult = "none"
    /\ nCreate = 0
    /\ nCreateOk = 0
    /\ trace = <<>>
    /\ acted = FALSE
    /\ resume = FALSE
    /\ base = 0
    /\ failOffset = NoOffset
    /\ callTx = 0

\* an exception leaves upload_chunk() (and upload(), when it is the caller)
Raise(e) ==
    /\ pc' = "idle"
    /\ result' = "raised"
    /\ raised' = e
    /\ chunkResult' = "raised"

\* upload_chunk() returns: to the loop of upload(), or to the caller
ReturnFromChunk ==
    /\ chunkResult' = "returned"
    /\ IF inUpload
       THEN pc' = "loop" /\ result' = result
       ELSE pc' = "idle" /\ result' = "returned"

\* the caller calls upload(stop_at=s); StreamUploader has no upload()
CallUpload(s) ==
    /\ pc = "idle"
    /\ variant # "stream"
    /\ calls < MaxCalls
    /\ stop_at' = ResolveStopAt(s)
    /\ pc' = "loop"
    /\ inUpload' = TRUE
    /\ calls' = calls + 1
    /\ lastCall' = [op |-> "upload", arg |-> s]
    /\ result' = "running"
    /\ raised' = NoError
    /\ acted' = FALSE
    /\ resume' = (lastCall = [op |-> "upload", arg |-> s] /\ result = "returned")
    /\ chunkResult' = "none"
    /\ trace' = <<>>
    /\ base' = offset
    /\ failOffset' = NoOffset
    /\ callTx' = 0
    /\ UNCHANGED <<variant, retries, url, offset, retried, request, error,
                   nCreate, nCreateOk>>

\* upload(): the test of the while loop, then upload_chunk() or return
UploadLoop ==
    /\ pc = "loop"
    /\ IF LoopContinues
       THEN /\ pc' = "chunk"
            /\ result' = result
       ELSE /\ pc' = "idle"
            /\ result' = "returned"
    /\ UNCHANGED <<variant, retries, url, offset, stop_at, retried, request, error,
                   inUpload, calls, lastCall, raised, chunkResult, nCreate,
                   nCreateOk, trace, acted, resume, base, failOffset, callTx>>

\* the caller calls upload_chunk() itself
CallUploadChunk ==
    /\ pc = "idle"
    /\ calls < MaxCalls
    /\ pc' = "chunk"
    /\ inUpload' = FALSE
    /\ calls' = calls + 1
    /\ lastCall' = [op |-> "upload_chunk", arg |-> NoArg]
    /\ result' = "running"
    /\ raised' = NoError
    /\ acted' = FALSE
    /\ resume' = FALSE
    /\ chunkResult' = "none"
    /\ trace' = <<>>
    /\ base' = offset
    /\ failOffset' = IF BudgetExhausted THEN offset ELSE NoOffset
    /\ callTx' = 0
    /\ UNCHANGED <<variant, retries, url, offset, stop_at, retried, request, error,
                   nCreate, nCreateOk>>

\* upload_chunk(): `self._retried = 0`, then the test of self.url
UploadChunk ==
    /\ pc = "chunk"
    /\ retried' = ResetRetried
    /\ pc' = IF NeedsUrl THEN "create" ELSE "request"
    /\ chunkResult' = "running"
    /\ trace' = <<>>
    /\ base' = offset
    /\ UNCHANGED <<variant, retries, url, offset, stop_at, request, error, inUpload,
                   calls, lastCall, result, raised, nCreate, nCreateOk, acted,
                   resume, failOffset, callTx>>

\* create_url(): the POST and its answer (transport: the POST itself failed;
\* location: the answer has a location header), then set_url and offset = 0
CreateUrl(transport, location) ==
    /\ pc = "create"
    /\ nCreate' = nCreate + 1
    /\ acted' = TRUE
    /\ IF transport
       THEN /\ Raise(Err("CommunicationError", "create", 0))
            /\ trace' = Append(trace, "create_transport")
            /\ UNCHANGED <<url, offset, nCreateOk, base>>
       ELSE IF ~location
       THEN /\ Raise(NoLocationError)
            /\ trace' = Append(trace, "create_nolocation")
            /\ UNCHANGED <<url, offset, nCreateOk, base>>
       ELSE /\ url' = nCreate + 1
            /\ offset' = 0
            /\ base' = 0
            /\ nCreateOk' = nCreateOk + 1
            /\ trace' = Append(trace, "create_ok")
            /\ pc' = "request"
            /\ UNCHANGED <<result, raised, chunkResult>>
    /\ UNCHANGED <<variant, retries, stop_at, retried, request, error, inUpload,
                   calls, lastCall, resume, failOffset, callTx>>

\* _do_request(): a new request, perform() and _verify_upload()
\* (status = NoStatus: perform() raised TusUploadFailed, nothing received)
DoRequest(status, hdr) ==
    /\ pc = "request"
    /\ request' = [status |-> status, declared |-> offset,
                    hdr |-> IF status = NoStatus THEN Missing ELSE hdr]
    /\ acted' = TRUE
    /\ IF status # NoStatus /\ verify_upload(request')
       THEN /\ trace' = Append(trace, "tx_ok")
            /\ pc' = "parse"
            /\ error' = error
            /\ callTx' = IF callTx < MaxTx THEN callTx + 1 ELSE callTx
       ELSE /\ callTx' = callTx /\ trace' = Append(trace, IF status = NoStatus THEN "tx_transport"
                                                           ELSE "tx_status")
            /\ error' = Err("UploadFailed", "tx", Len(trace) + 1)
            /\ pc' = "retry"
    /\ UNCHANGED <<variant, retries, url, offset, stop_at, retried, inUpload,
                   calls, lastCall, result, raised, chunkResult, nCreate,
                   nCreateOk, resume, base, failOffset>>

\* _retry_or_cry(error): the test of the budget; `raise error` when it is spent
RetryOrCry ==
    /\ pc = "retry"
    /\ IF CanRetry
       THEN /\ pc' = "sleep"
            /\ UNCHANGED <<result, raised, chunkResult>>
       ELSE Raise(ErrorToRaise)
    /\ UNCHANGED <<variant, retries, url, offset, stop_at, retried, request, error,
                   inUpload, calls, lastCall, nCreate, nCreateOk, trace,
                   acted, resume, base, failOffset, callTx>>

\* _retry_or_cry: the sleep of retry_delay ends, `self._retried += 1`
Sleep ==
    /\ pc = "sleep"
    /\ retried' = retried + 1
    /\ trace' = Append(trace, "sleep")
    /\ pc' = "query"
    /\ UNCHANGED <<variant, retries, url, offset, stop_at, request, error, inUpload,
                   calls, lastCall, result, raised, chunkResult, nCreate,
                   nCreateOk, acted, resume, base, failOffset, callTx>>

\* _retry_or_cry: `self.offset = self.get_offset()`; a TusCommunicationError
\* re-enters _retry_or_cry with it, a value leads to _do_request()
GetOffset(ok, v) ==
    /\ pc = "query"
    /\ acted' = TRUE
    /\ IF ok
       THEN /\ offset' = OffsetAfterQuery(v)
            /\ base' = v
            /\ trace' = Append(trace, "query_ok")
            /\ pc' = "request"
            /\ error' = error
       ELSE /\ offset' = offset
            /\ base' = base
            /\ trace' = Append(trace, "query_fail")
            /\ error' = Err("CommunicationError", "query", Len(trace) + 1)
            /\ pc' = "retry"
    /\ UNCHANGED <<variant, retries, url, stop_at, retried, request, inUpload,
                   calls, lastCall, result, raised, chunkResult, nCreate,
                   nCreateOk, resume, failOffset, callTx>>

\* upload_chunk(): the last line, after _do_request() returned
ParseOffset ==
    /\ pc = "parse"
    /\ IF request.hdr = Missing
       THEN /\ Raise(Err("TypeError", "parse", Len(trace)))
            /\ offset' = offset
       ELSE IF request.hdr = Malformed
       THEN /\ Raise(Err("ValueError", "parse", Len(trace)))
            /\ offset' = offset
       ELSE /\ offset' = NewOffset
            /\ ReturnFromChunk
            /\ raised' = raised
    /\ UNCHANGED <<variant, retries, url, stop_at, retried, request, error, inUpload,
                   calls, lastCall, nCreate, nCreateOk, trace, acted,
                   resume, base, failOffset, callTx>>

\* AsyncUploader only: the task is cancelled while it waits at an await;
\* CancelledError is raised there (no handler of the class catches it)
Cancel ==
    /\ variant = "async"
    /\ pc \in SuspensionPoints
    /\ Raise(Err("CancelledError", pc, Len(trace)))
    /\ trace' = Append(trace, "cancel")
    /\ UNCHANGED <<variant, retries, url, offset, stop_at, retried, request, error,
                   inUpload, calls, lastCall, nCreate, nCreateOk, acted, resume,
                   base, failOffset, callTx>>

\* a rejected response may carry an upload-offset header too
RejectedHeaders == {MaxOff}

Next ==
    \/ \E s \in StopArgs : CallUpload(s)
    \/ UploadLoop
    \/ CallUploadChunk
    \/ UploadChunk
    \/ \E transport, location \in BOOLEAN : CreateUrl(transport, location)
    \/ \E hdr \in HeaderValues : DoRequest(OK204, hdr)
    \/ \E hdr \in RejectedHeaders : DoRequest(Conflict409, hdr)
    \/ DoRequest(NoStatus, Missing)
    \/ RetryOrCry
    \/ Sleep
    \/ \E ok \in BOOLEAN, v \in Offsets : GetOffset(ok, v)
    \/ ParseOffset
    \/ Cancel

Spec == Init /\ [][Next]_vars

\* the steps of a running upload_chunk()
ChunkStep ==
    \/ UploadChunk
    \/ \E transport, location \in BOOLEAN : CreateUrl(transport, location)
    \/ \E hdr \in HeaderValues : DoRequest(OK204, hdr)
    \/ \E hdr \in RejectedHeaders : DoRequest(Conflict409, hdr)
    \/ DoRequest(NoStatus, Missing)
    \/ RetryOrCry
    \/ Sleep
    \/ \E ok \in BOOLEAN, v \in Offsets : GetOffset(ok, v)
    \/ ParseOffset

\* a caller that sends the file by upload_chunk() calls alone
NextChunk ==
    \/ CallUploadChunk
    \/ ChunkStep
    \/ Cancel

\* every exchange gets some answer (or fails) and the call stack runs on
SpecChunk == Init /\ [][NextChunk]_vars /\ WF_vars(ChunkStep)

\* The same session against a server that follows the protocol: it answers
\* the creation with a location and every transmission with 204 and
\* upload-offset = declared offset + bytes received.
GoodStep ==
    \/ UploadLoop
    \/ UploadChunk
    \/ CreateUrl(FALSE, TRUE)
    \/ DoRequest(OK204, offset + BytesSent)
    \/ ParseOffset

NextGood ==
    \/ \E s \in StopArgs : CallUpload(s)
    \/ GoodStep

\* every exchange is answered and the call stack runs on
SpecGood == Init /\ [][NextGood]_vars /\ WF_vars(GoodStep)

\* ------------------------------------------------------------ properties
\* the latest upload_chunk() of the latest call has ended
ChunkEnded == chunkResult \in {"returned", "raised"}
\* every transmission so far got a non-204 status, every offset query a
\* value, and the task was not cancelled
AllTxRejected == Positions({"tx_ok", "tx_transport", "query_fail", "cancel"}) = {}

\* C1: with retries = N, when every transmission of an upload_chunk() is
\* answered by a non-204 status and every offset query succeeds, the call
\* never makes more than N+1 transmissions, and it ends only by raising
\* UploadFailed after exactly N+1 of them.
C1_RetryBudget ==
    (TxCount >= 1 /\ AllTxRejected) =>
        /\ TxCount <= retries + 1
        /\ ChunkEnded => /\ chunkResult = "raised"
                         /\ raised.kind = "UploadFailed"
                         /\ TxCount = retries + 1
C1_Witness ==
    /\ ChunkEnded /\ AllTxRejected
    /\ retries = MaxRetries /\ TxCount = MaxRetries + 1
    /\ raised.kind = "UploadFailed"

\* C2 (as claimed): the creation call is issued at most once in a session.
C2_CreateAtMostOnce == nCreate <= 1
\* C2 (amended): at most one creation call returns a location, and no
\* creation call is issued once url is set; a failed creation may be
\* followed by another one in a later call.
C2_CreateOnlyWhileNoUrl ==
    /\ [](nCreateOk <= 1)
    /\ [][url # NoUrl => nCreate' = nCreate]_vars
C2_Witness ==
    /\ nCreate = 2 /\ nCreateOk = 1
    /\ calls = 2 /\ chunkResult = "returned"

\* C3: once url is non-empty no step changes it.
C3_UrlWriteOnce == [][url # NoUrl => url' = url]_vars
C3_Witness ==
    /\ url # NoUrl /\ calls = 2 /\ Positions({"create_ok"}) = {}
    /\ chunkResult = "raised" /\ Count({"query_ok"}) >= 1

\* C4: the recorded offset never decreases, whatever the server reports.
C4_OffsetMonotonic == [][offset' >= offset]_vars

\* the points of an upload() call between two chunks, and its end
BetweenChunks == lastCall.op = "upload" /\ pc \in {"loop", "idle"}

\* C5: between the chunks of upload() and at its end,
\* 0 <= offset <= stop_at <= artifact size.
C5_OffsetWithinStop ==
    BetweenChunks => (0 <= offset /\ offset <= stop_at /\ stop_at <= FileSize)

UploadReturned == lastCall.op = "upload" /\ pc = "idle" /\ result = "returned"

\* C6: whenever upload() has returned normally, offset = stop_at.
C6_ReturnsAtStop == UploadReturned => offset = stop_at

\* C7: an upload(stop_at) call that follows a completed upload(stop_at) with
\* the same argument issues no exchange and leaves offset and url unchanged.
C7_IdempotentResume ==
    [][resume' => (~acted' /\ offset' = offset /\ url' = url /\ pc' # "chunk")]_vars
C7_Witness == resume /\ UploadReturned /\ offset > 0 /\ url # NoUrl

\* C8: after upload_chunk() returned normally, offset is the upload-offset
\* value of the response of its last transmission, which was a 204.
C8_OffsetTrust ==
    chunkResult = "returned" =>
        /\ trace[Last(Positions(TxEvents))] = "tx_ok"
        /\ Last(Positions(TxEvents)) = Len(trace)
        /\ request.status = OK204
        /\ offset = request.hdr
C8_Witness ==
    /\ chunkResult = "returned" /\ Count({"tx_status"}) >= 1
    /\ Count({"query_ok"}) >= 1 /\ offset = 0

\* C9: in every variant a creation response without location makes the call
\* raise CommunicationError at once: nothing else is exchanged, url stays unset.
C9_NoLocationIsCommunicationError ==
    (trace # <<>> /\ trace[1] = "create_nolocation") =>
        /\ chunkResult = "raised"
        /\ raised.kind = "CommunicationError"
        /\ Len(trace) = 1
        /\ url = NoUrl

\* C10 (as claimed): on exhaustion the error raised is an UploadFailed, the
\* one of the first transmission of the call.
C10_RaisesOriginalError ==
    BudgetExhausted =>
        /\ raised.kind = "UploadFailed"
        /\ raised = ErrorAt(First(Positions(TxEvents)))
\* C10 (amended): on exhaustion the error raised is the error of the latest
\* failed exchange of the call: the UploadFailed of the last transmission,
\* or the CommunicationError of the offset query when that query failed last.
C10_RaisesLatestError ==
    BudgetExhausted =>
        /\ raised = ErrorAt(Last(Positions(FailEvents)))
        /\ Last(Positions(FailEvents)) = Last(Positions(TxEvents \cup QueryEvents))
        /\ retried = retries
C10_Witness ==
    /\ BudgetExhausted /\ retries = MaxRetries
    /\ raised.kind = "CommunicationError"
    /\ Count({"tx_status"}) >= 2

\* ceil(a / b)
CeilDiv(a, b) == (a + b - 1) \div b
\* the first call of the session is upload() with stop_at defaulted
FirstUploadDefault == calls = 1 /\ lastCall = [op |-> "upload", arg |-> NoArg]

\* C11: against a server that follows the protocol, upload() with stop_at
\* defaulted on a new session ends, and it ends by returning, after one
\* creation call and ceil(FileSize / ChunkSize) transmissions, all answered
\* 204, with offset = FileSize.
C11_WholeFile ==
    /\ [](FirstUploadDefault =>
            /\ result # "raised"
            /\ nCreate <= 1
            /\ callTx <= CeilDiv(FileSize, ChunkSize)
            /\ UploadReturned => /\ offset = FileSize
                                 /\ nCreate = 1
                                 /\ callTx = CeilDiv(FileSize, ChunkSize))
    /\ (FirstUploadDefault ~> (FirstUploadDefault => UploadReturned))
C11_Witness ==
    /\ FirstUploadDefault /\ UploadReturned
    /\ offset = FileSize /\ callTx = CeilDiv(FileSize, ChunkSize) /\ callTx >= 2

\* C12: after an upload_chunk() whose retry budget ran out, url is set and
\* offset is the value of the last successful offset query of that call (its
\* value when the chunk began if none succeeded); the next upload_chunk()
\* issues no creation call, starts with _retried = 0, counts its retries
\* from 0 and sends its first transmission from that offset.
C12_Resumable ==
    /\ BudgetExhausted => (url # NoUrl /\ offset = base)
    /\ failOffset # NoOffset =>
        /\ url # NoUrl
        /\ Positions(CreateEvents) = {}
        /\ (pc = "request" /\ trace = <<>>) => (retried = 0 /\ offset = failOffset)
        /\ (Len(trace) = 1 /\ trace[1] \in TxEvents) => request.declared = failOffset
        /\ chunkResult # "none" => (retried = Count({"sleep"}) /\ retried <= retries)
C12_Witness ==
    /\ failOffset # NoOffset /\ failOffset > 0 /\ retries > 0
    /\ chunkResult = "returned" /\ Count({"sleep"}) = retries

\* C13 (as claimed): a failed offset query re-enters recovery without being
\* bounded by the budget: after a failed query another wait always follows.
C13_QueryFailureAlwaysRetried ==
    [][(pc = "retry" /\ error.op = "query") => pc' = "sleep"]_vars
\* C13 (amended): the recovery attempts (wait + offset query) of one
\* upload_chunk() never exceed retries, whether the queries fail or succeed:
\* each one increments _retried, and a failed query uses up one of them
\* without a transmission.
C13_RecoveriesBounded ==
    /\ Count({"sleep"}) <= retries
    /\ QueryCount <= Count({"sleep"})
    /\ TxCount <= 1 + Count({"query_ok"})
    /\ chunkResult \in {"running", "returned", "raised"} => retried = Count({"sleep"})
C13_Witness ==
    /\ chunkResult = "raised" /\ raised.op = "query"
    /\ retries = MaxRetries /\ Count({"query_fail"}) = MaxRetries

\* C14: a 204 answer whose upload-offset header is missing or no integer
\* makes upload_chunk() raise CommunicationError, offset unchanged.
C14_BadOffsetHeaderIsCommunicationError ==
    (chunkResult = "raised" /\ raised.op = "parse") =>
        (raised.kind = "CommunicationError" /\ offset = base)

\* C15: the three variants give the same outcome for the same answers. All
\* steps but one are the same text in the three classes; for a creation
\* answered without location, the error raised is the one every variant raises.
C15_VariantsAgree ==
    (chunkResult = "raised" /\ raised.op = "create"
        /\ trace[Len(trace)] = "create_nolocation") =>
        \A v \in Variants : raised = NoLocationErrorOf(v)

\* a step in which the cancellation of the task takes effect
CancelStep == raised'.kind = "CancelledError" /\ raised.kind # "CancelledError"

\* C16 (as claimed): a cancellation aborts upload() only between two chunks.
C16_CancelOnlyBetweenChunks == [][CancelStep => pc = "loop"]_vars
\* C16 (amended): a cancellation takes effect only in AsyncUploader and only
\* at an await, all of which are inside a chunk (creation, transmission,
\* retry wait); the step changes neither offset nor url nor _retried, and
\* offset is then the value the session last took over from the server.
C16_CancelAtSuspensionPoint ==
    /\ [][CancelStep => /\ variant = "async"
                        /\ pc \in {"create", "request", "sleep"}
                        /\ offset' = offset /\ url' = url /\ retried' = retried]_vars
    /\ [](raised.kind = "CancelledError" =>
            (offset = base /\ (url = NoUrl => offset = 0)))
C16_Witness ==
    /\ raised.kind = "CancelledError" /\ raised.op = "sleep"
    /\ lastCall.op = "upload" /\ url # NoUrl /\ offset > 0

\* C17: in one upload_chunk() every transmission after the first directly
\* follows a successful offset query, every query directly follows a wait,
\* every wait follows a failed exchange and comes with one increment of
\* _retried, and a retransmission declares the offset the query returned.
C17_RecoveryOrder ==
    /\ \A i \in Positions(TxEvents) :
          \/ i = First(Positions(TxEvents))
          \/ (i >= 3 /\ trace[i-1] = "query_ok" /\ trace[i-2] = "sleep")
    /\ \A i \in Positions(QueryEvents) : i >= 2 /\ trace[i-1] = "sleep"
    /\ \A i \in Positions({"sleep"}) : i >= 2 /\ trace[i-1] \in FailEvents
    /\ First(Positions(TxEvents) \cup {Len(trace) + 1})
          <= First(Positions({"sleep"} \cup QueryEvents) \cup {Len(trace) + 1})
    /\ chunkResult \in {"running", "returned", "raised"} => retried = Count({"sleep"})
    /\ (Len(trace) >= 2 /\ trace[Len(trace)] \in TxEvents
          /\ trace[Len(trace) - 1] = "query_ok") => request.declared = base
C17_Witness ==
    /\ chunkResult = "returned" /\ trace[1] = "create_ok"
    /\ Count({"query_fail"}) >= 1 /\ Count({"query_ok"}) = 1
    /\ request.declared > 0 /\ offset > request.declared

\* C18: upload() loops up to the stop_at the caller gives, 0 included, so
\* upload(stop_at=0) on a new session exchanges nothing.
C18_GivenStopAtIsUsed ==
    /\ (lastCall.op = "upload" /\ lastCall.arg # NoArg) => stop_at = lastCall.arg
    /\ (calls = 1 /\ lastCall = [op |-> "upload", arg |-> 0]) => ~acted

\* a running upload_chunk()
InChunk == pc \in {"chunk", "create", "request", "retry", "sleep", "query", "parse"}
\* steps upload_chunk() can still take at most: each wait uses one of the
\* retries - _retried recoveries left, and gives at most 4 steps
Rank ==
    CASE pc = "chunk" -> 4 * retries + 6
      [] pc = "create" -> 4 * retries + 5
      [] pc = "query" -> 4 * (retries - retried) + 3
      [] pc = "request" -> 4 * (retries - retried) + 2
      [] pc = "retry" -> 4 * (retries - retried) + 1
      [] pc = "parse" -> 4 * (retries - retried) + 1
      [] pc = "sleep" -> 4 * (retries - retried)
      [] OTHER -> 0

\* C19: every upload_chunk() ends, whatever the answers: each step lowers a
\* rank that never goes below 0, because every entry into recovery uses up
\* one unit of retries - _retried; and the call does end.
C19_ChunkTerminates ==
    /\ [](InChunk => Rank >= 0)
    /\ [][(InChunk /\ InChunk') => Rank' < Rank]_vars
    /\ (InChunk ~> ~InChunk)
C19_Witness ==
    /\ chunkResult = "raised" /\ retries = MaxRetries
    /\ Count({"query_fail"}) = MaxRetries /\ Count({"tx_status", "tx_transport"}) = 1

====
